---- MODULE Spec2Model ----
(***************************************************************************)
(* Particle Life: the ParticleEngine of src/classes/ParticleEngine.ts and  *)
(* the event handlers of the canvas component that drive it.               *)
(*                                                                         *)
(* Numbers.  The engine computes in IEEE doubles and stores positions and  *)
(* velocities in Float32Arrays.  Here every number is an integer count of  *)
(* grid steps: ONE steps make 1.0 for positions, velocities, coefficients  *)
(* and config parameters, SONE steps make 1.0 for a ripple's strength.     *)
(* Every operation that can leave the grid (a product, a quotient, a       *)
(* square root, the store of Math.random() * width into a Float32Array)    *)
(* rounds to the nearest grid value, as the floating-point operation       *)
(* rounds to the nearest representable value.  NaN is a value of its own.  *)
(***************************************************************************)
EXTENDS Integers, Sequences, FiniteSets, TLC

VARIABLES x, y, vx, vy, group, numParticles, ripples, config, width, height,
          groupOffsets, isPlaying, framePending, strayFrames, mounted, threw,
          drawn, ticks, probe

vars == <<x, y, vx, vy, group, numParticles, ripples, config, width, height,
          groupOffsets, isPlaying, framePending, strayFrames, mounted, threw,
          drawn, ticks, probe>>

\* what the engine's methods leave alone: the component's scheduling state
\* and the record of a separate call of interactionForce
hostVars == <<isPlaying, framePending, strayFrames, mounted, probe>>

engineVars == <<x, y, vx, vy, group, numParticles, ripples, config, width,
                height, groupOffsets>>

----------------------------------------------------------------------------
(* Number representation *)

ONE == 100
SONE == 1000
\* Math.random() returns k / RandDen for some k in 0 .. RandDen - 1
RandDen == 65536
\* the value that is not a number: ToNumber(undefined), the value of an absent
\* config field when it is compared or multiplied
NaN == -999999999

Abs(a) == IF a < 0 THEN -a ELSE a

\* n / d rounded to the nearest integer, halves away from zero (d > 0)
Round(n, d) == LET a == IF n < 0 THEN -n ELSE n
                   q == a \div d
                   m == IF 2 * (a % d) >= d THEN q + 1 ELSE q
               IN IF n < 0 THEN -m ELSE m

\* a * num / den rounded, computed without forming a * num (a >= 0)
MulDiv(a, num, den) == (a \div den) * num + Round((a % den) * num, den)

RECURSIVE FloorSqrt(_, _, _)
FloorSqrt(n, lo, hi) ==
  IF lo >= hi THEN lo
  ELSE LET mid == (lo + hi + 1) \div 2
       IN IF mid * mid <= n THEN FloorSqrt(n, mid, hi)
          ELSE FloorSqrt(n, lo, mid - 1)

\* Math.sqrt on grid values: sqrt(n) rounded to the nearest integer
Sqrt(n) == LET r == FloorSqrt(n, 0, 46340)
           IN IF n - r * r > r THEN r + 1 ELSE r

\* a < b and a > b of JavaScript numbers: false when either side is NaN
Lt(a, b) == a # NaN /\ b # NaN /\ a < b
Gt(a, b) == a # NaN /\ b # NaN /\ a > b

----------------------------------------------------------------------------
(* The engine's state as one value, and the arrays of the code *)

Engine == [x |-> x, y |-> y, vx |-> vx, vy |-> vy, group |-> group,
           numParticles |-> numParticles, ripples |-> ripples,
           config |-> config, width |-> width, height |-> height,
           groupOffsets |-> groupOffsets]

\* indices of an array of length n
Idx(n) == 0 .. (n - 1)

\* counts[lo] + ... + counts[hi], by halves
RECURSIVE RangeSum(_, _, _)
RangeSum(counts, lo, hi) ==
  IF lo > hi THEN 0
  ELSE IF lo = hi THEN counts[lo]
  ELSE CHOOSE r \in {RangeSum(counts, lo, mid) + RangeSum(counts, mid + 1, hi) :
                       mid \in {(lo + hi) \div 2}} : TRUE

\* total += c; this.groupOffsets.push(total), after the first k counts
PrefixSum(counts, k) == RangeSum(counts, 1, k)

\* the number of values an element of a Uint8Array can hold
Uint8Range == 256

\* this.x[idx] = Math.random() * extent: the product, stored as a float32
RandomCoord(k, extent) == Round(k * extent, RandDen)

\* initParticles(): e with the store rebuilt; the n-th call of Math.random()
\* returns stream[n] / RandDen
initParticles(e, stream) ==
  LET counts == e.config.atomCounts
      total == PrefixSum(counts, Len(counts))
      offsets == [t \in 0 .. Len(counts) |-> PrefixSum(counts, t)]
      groupAt(i) == CHOOSE g \in Idx(Len(counts)) :
                       offsets[g] <= i /\ i < offsets[g + 1]
  IN [e EXCEPT !.groupOffsets = offsets,
               !.numParticles = total,
               !.x = [i \in Idx(total) |-> RandomCoord(stream[2 * i + 1], e.width)],
               !.y = [i \in Idx(total) |-> RandomCoord(stream[2 * i + 2], e.height)],
               !.vx = [i \in Idx(total) |-> 0],
               !.vy = [i \in Idx(total) |-> 0],
               !.group = [i \in Idx(total) |-> groupAt(i) % Uint8Range]]

\* a resize that also folds the positions into the new bounds
resize_Reclamp(e, w, h) ==
  [e EXCEPT !.width = w, !.height = h,
            !.x = [i \in Idx(e.numParticles) |-> e.x[i] % w],
            !.y = [i \in Idx(e.numParticles) |-> e.y[i] % h]]

\* resize(width, height)
resize(e, w, h) == [e EXCEPT !.width = w, !.height = h]

\* a comparison of the counts that looks at their number only
countsChanged_LengthOnly(old, new) == Len(new.atomCounts) # Len(old.atomCounts)

\* setConfig(newConfig)
countsChanged(old, new) ==
  \/ Len(new.atomCounts) # Len(old.atomCounts)
  \/ \E i \in 1 .. Len(new.atomCounts) : new.atomCounts[i] # old.atomCounts[i]

\* a setConfig that empties the ripple list when the new configuration has
\* ripples switched off
setConfig_DropRipples(e, newConfig, stream) ==
  LET kept == IF Gt(newConfig.rippleStrength, 0) THEN e.ripples ELSE <<>>
  IN IF countsChanged(e.config, newConfig)
     THEN initParticles([e EXCEPT !.config = newConfig, !.ripples = kept], stream)
     ELSE [e EXCEPT !.config = newConfig, !.ripples = kept]

setConfig(e, newConfig, stream) ==
  IF countsChanged(e.config, newConfig)
  THEN initParticles([e EXCEPT !.config = newConfig], stream)
  ELSE [e EXCEPT !.config = newConfig]

\* a triggerRipple without the test of the strength
triggerRipple_NoGuard(e, px, py) ==
  [e EXCEPT !.ripples = Append(@, [x |-> px, y |-> py, age |-> 0,
                                   strength |-> e.config.rippleStrength,
                                   s0 |-> e.config.rippleStrength,
                                   t0 |-> ticks])]

\* triggerRipple(x, y); s0 and t0 are not fields of the code's Ripple: they
\* record the strength the ripple was created with and the number of
\* update() calls made before its creation
triggerRipple(e, px, py) ==
  IF Gt(e.config.rippleStrength, 0)
  THEN [e EXCEPT !.ripples = Append(@, [x |-> px, y |-> py, age |-> 0,
                                        strength |-> e.config.rippleStrength,
                                        s0 |-> e.config.rippleStrength,
                                        t0 |-> ticks])]
  ELSE e

----------------------------------------------------------------------------
(* update(): the ripple pass *)

RIPPLE_SPEED == 6
RIPPLE_WIDTH == 30
RIPPLE_MAX_AGE == 300

\* ripple.strength *= 0.95
Decay(s) == MulDiv(s, 95, 100)

\* a removal test that takes the ripple out when its age reaches 300
IsDead_AgeAtLimit(rp) ==
  rp.strength < (5 * SONE) \div 100 \/ rp.age >= RIPPLE_MAX_AGE

\* ripple.strength < 0.05 || ripple.age > 300, after the increment and decay
IsDead(rp) == rp.strength < (5 * SONE) \div 100 \/ rp.age > RIPPLE_MAX_AGE

\* an advance that decays the strength and leaves the age alone
Advance_NoAge(rp) == [rp EXCEPT !.strength = Decay(@)]

\* ripple.age++; ripple.strength *= 0.95
Advance(rp) == [rp EXCEPT !.age = @ + 1, !.strength = Decay(@)]

\* a displacement that is left as the difference of the coordinates
WrapDelta_NoWrap(d, extent) == d

\* if (d > extent * 0.5) d -= extent; if (d < -extent * 0.5) d += extent
WrapDelta(d, extent) ==
  LET d1 == IF 2 * d > extent THEN d - extent ELSE d
  IN IF 2 * d1 < -extent THEN d1 + extent ELSE d1

\* an impulse that pulls the particle toward the origin of the ripple
RipplePush_Inward(rp, px, py, w, h) ==
  LET dx == WrapDelta(rp.x - px, w)
      dy == WrapDelta(rp.y - py, h)
      dist == Sqrt(dx * dx + dy * dy)
      currentRadius == rp.age * RIPPLE_SPEED * ONE
      waveStrength == rp.strength * 5
      distFromWave == Abs(dist - currentRadius)
      intensity == ONE - Round(distFromWave, RIPPLE_WIDTH)
      push(d) == Round(Round(Round(d * ONE, dist) * intensity, ONE) * waveStrength,
                       SONE)
  IN IF distFromWave < RIPPLE_WIDTH * ONE /\ dist * 1000 > ONE
     THEN <<push(dx), push(dy)>>
     ELSE <<0, 0>>

\* the wrapped displacement from the origin of ripple rp to a particle
RippleDx(rp, px, w) == WrapDelta(px - rp.x, w)
RippleDy(rp, py, h) == WrapDelta(py - rp.y, h)

\* the impulse <<pushX, pushY>> an advanced, live ripple rp adds to the
\* velocity of a particle at (px, py)
RipplePush(rp, px, py, w, h) ==
  LET dx == RippleDx(rp, px, w)
      dy == RippleDy(rp, py, h)
      dist == Sqrt(dx * dx + dy * dy)
      currentRadius == rp.age * RIPPLE_SPEED * ONE
      waveStrength == rp.strength * 5
      distFromWave == Abs(dist - currentRadius)
      intensity == ONE - Round(distFromWave, RIPPLE_WIDTH)
      push(d) == Round(Round(Round(d * ONE, dist) * intensity, ONE) * waveStrength,
                       SONE)
  IN IF distFromWave < RIPPLE_WIDTH * ONE /\ dist * 1000 > ONE
     THEN <<push(dx), push(dy)>>
     ELSE <<0, 0>>

\* a ripple loop that pushes the particles before it tests whether the
\* ripple is dead
RECURSIVE RippleLoop_PushThenRemove(_, _, _)
RippleLoop_PushThenRemove(e, r, acc) ==
  IF r = 0 THEN acc
  ELSE LET rp == Advance(acc.ripples[r])
           advanced == [acc.ripples EXCEPT ![r] = rp]
           pushed ==
             [ripples |-> advanced,
              visited |-> Append(acc.visited, r),
              vx |-> [i \in Idx(e.numParticles) |->
                        acc.vx[i] + RipplePush(rp, e.x[i], e.y[i], e.width, e.height)[1]],
              vy |-> [i \in Idx(e.numParticles) |->
                        acc.vy[i] + RipplePush(rp, e.x[i], e.y[i], e.width, e.height)[2]]]
       IN IF IsDead(rp)
          THEN RippleLoop_PushThenRemove(e, r - 1,
                 [pushed EXCEPT !.ripples =
                                   SubSeq(advanced, 1, r - 1) \o
                                   SubSeq(advanced, r + 1, Len(advanced))])
          ELSE RippleLoop_PushThenRemove(e, r - 1, pushed)

\* a ripple loop that writes velocity = old velocity + push for each ripple
\* instead of adding the push to what the ripples before it left
RECURSIVE RippleLoop_LastOnly(_, _, _)
RippleLoop_LastOnly(e, r, acc) ==
  IF r = 0 THEN acc
  ELSE LET rp == Advance(acc.ripples[r])
           advanced == [acc.ripples EXCEPT ![r] = rp]
       IN IF IsDead(rp)
          THEN RippleLoop_LastOnly(e, r - 1,
                 [acc EXCEPT !.ripples =
                                SubSeq(advanced, 1, r - 1) \o
                                SubSeq(advanced, r + 1, Len(advanced)),
                             !.visited = Append(@, r)])
          ELSE RippleLoop_LastOnly(e, r - 1,
                 [ripples |-> advanced,
                  visited |-> Append(acc.visited, r),
                  vx |-> [i \in Idx(e.numParticles) |->
                            e.vx[i] + RipplePush(rp, e.x[i], e.y[i], e.width, e.height)[1]],
                  vy |-> [i \in Idx(e.numParticles) |->
                            e.vy[i] + RipplePush(rp, e.x[i], e.y[i], e.width, e.height)[2]]])

\* a loop that runs from the first ripple up and, after a removal, moves on
\* to the next index all the same
RECURSIVE RippleLoopUp(_, _, _)
RippleLoopUp(e, r, acc) ==
  IF r > Len(acc.ripples) THEN acc
  ELSE LET rp == Advance(acc.ripples[r])
           advanced == [acc.ripples EXCEPT ![r] = rp]
       IN IF IsDead(rp)
          THEN RippleLoopUp(e, r + 1,
                 [acc EXCEPT !.ripples =
                                SubSeq(advanced, 1, r - 1) \o
                                SubSeq(advanced, r + 1, Len(advanced)),
                             !.visited = Append(@, r)])
          ELSE RippleLoopUp(e, r + 1,
                 [ripples |-> advanced,
                  visited |-> Append(acc.visited, r),
                  vx |-> [i \in Idx(e.numParticles) |->
                            acc.vx[i] + RipplePush(rp, e.x[i], e.y[i], e.width, e.height)[1]],
                  vy |-> [i \in Idx(e.numParticles) |->
                            acc.vy[i] + RipplePush(rp, e.x[i], e.y[i], e.width, e.height)[2]]])

RippleLoop_Upward(e, r, acc) == RippleLoopUp(e, 1, acc)

\* the loop  for (let r = this.ripples.length - 1; r >= 0; r--)  from index r
\* (1-based here) down: acc holds the ripple list and the velocities so far,
\* and visited, the indices the loop has handled, in the order it handled them
RECURSIVE RippleLoop(_, _, _)
RippleLoop(e, r, acc) ==
  IF r = 0 THEN acc
  ELSE LET rp == Advance(acc.ripples[r])
           advanced == [acc.ripples EXCEPT ![r] = rp]
       IN IF IsDead(rp)
          THEN RippleLoop(e, r - 1,
                 [acc EXCEPT !.ripples =
                                SubSeq(advanced, 1, r - 1) \o
                                SubSeq(advanced, r + 1, Len(advanced)),
                             !.visited = Append(@, r)])
          ELSE RippleLoop(e, r - 1,
                 [ripples |-> advanced,
                  visited |-> Append(acc.visited, r),
                  vx |-> [i \in Idx(e.numParticles) |->
                            acc.vx[i] + RipplePush(rp, e.x[i], e.y[i], e.width, e.height)[1]],
                  vy |-> [i \in Idx(e.numParticles) |->
                            acc.vy[i] + RipplePush(rp, e.x[i], e.y[i], e.width, e.height)[2]]])

\* the ripple loop run on e
RippleRun(e) ==
  RippleLoop(e, Len(e.ripples),
             [ripples |-> e.ripples, visited |-> <<>>, vx |-> e.vx, vy |-> e.vy])

RipplePass(e) ==
  LET acc == RippleRun(e)
  IN [e EXCEPT !.ripples = acc.ripples, !.vx = acc.vx, !.vy = acc.vy]

\* the indices of e.ripples in the order the loop handles them
RippleVisits(e) == RippleRun(e).visited

----------------------------------------------------------------------------
(* update(): the pairwise pass *)

\* an interaction force whose repulsive core reaches to 0.7
interactionForce_WideCore(dist, g) ==
  LET beta == (7 * ONE) \div 10
  IN IF dist < beta THEN Round(dist * ONE, beta) - ONE
     ELSE IF beta < dist /\ dist < ONE
          THEN Round(g * (ONE - Round(Abs(2 * dist - ONE - beta) * ONE, ONE - beta)),
                     ONE)
          ELSE 0

\* an interaction force whose band is not divided by 1 - beta
interactionForce_FlatTent(dist, g) ==
  LET beta == (3 * ONE) \div 10
  IN IF dist < beta THEN Round(dist * ONE, beta) - ONE
     ELSE IF beta < dist /\ dist < ONE
          THEN Round(g * (ONE - Abs(2 * dist - ONE - beta)), ONE)
          ELSE 0

\* interactionForce(dist, g), beta = 0.3
interactionForce(dist, g) ==
  LET beta == (3 * ONE) \div 10
  IN IF dist < beta THEN Round(dist * ONE, beta) - ONE
     ELSE IF beta < dist /\ dist < ONE
          THEN Round(g * (ONE - Round(Abs(2 * dist - ONE - beta) * ONE, ONE - beta)),
                     ONE)
          ELSE 0

\* the wrapped displacement from particle i to particle j
PairDx(e, i, j) == WrapDelta(e.x[j] - e.x[i], e.width)
PairDy(e, i, j) == WrapDelta(e.y[j] - e.y[i], e.height)
PairDistSq(e, i, j) == PairDx(e, i, j) * PairDx(e, i, j)
                       + PairDy(e, i, j) * PairDy(e, i, j)

\* a range test that lets pairs up to twice the cut-off radius through
InRange_DoubleRadius(e, i, j) ==
  /\ i # j
  /\ PairDistSq(e, i, j) > 0
  /\ PairDistSq(e, i, j) < 4 * e.config.cutOffRadius * e.config.cutOffRadius

\* i !== j and distSq > 0 && distSq < rMaxSq: the pair is evaluated
InRange(e, i, j) ==
  /\ i # j
  /\ PairDistSq(e, i, j) > 0
  /\ PairDistSq(e, i, j) < e.config.cutOffRadius * e.config.cutOffRadius

\* interactionMatrix[groupA] is undefined: reading [group[j]] of it throws
RowMissing(e, i) == e.group[i] + 1 > Len(e.config.interactionMatrix)

\* the pair (i, j) is evaluated and its matrix lookup throws a TypeError
PairThrows(e, i, j) == InRange(e, i, j) /\ RowMissing(e, i)

\* dist / rMax, the first argument of interactionForce
NormDist(e, i, j) == Round(Sqrt(PairDistSq(e, i, j)) * ONE, e.config.cutOffRadius)

\* a pair force that reads the coefficient of the pair (j, i)
PairForce_Transposed(e, i, j) ==
  IF ~InRange(e, i, j) THEN <<0, 0>>
  ELSE LET dist == Sqrt(PairDistSq(e, i, j))
           g == e.config.interactionMatrix[e.group[j] + 1][e.group[i] + 1]
           f == interactionForce(NormDist(e, i, j), g)
           force == Round(f * e.config.forceFactor, ONE)
       IN <<Round(Round(PairDx(e, i, j) * ONE, dist) * force, ONE),
            Round(Round(PairDy(e, i, j) * ONE, dist) * force, ONE)>>

\* what the pair (i, j) adds to <<fx, fy>>
PairForce(e, i, j) ==
  IF ~InRange(e, i, j) THEN <<0, 0>>
  ELSE LET dist == Sqrt(PairDistSq(e, i, j))
           g == e.config.interactionMatrix[e.group[i] + 1][e.group[j] + 1]
           f == interactionForce(NormDist(e, i, j), g)
           force == Round(f * e.config.forceFactor, ONE)
       IN <<Round(Round(PairDx(e, i, j) * ONE, dist) * force, ONE),
            Round(Round(PairDy(e, i, j) * ONE, dist) * force, ONE)>>

\* <<fx, fy>> of particle i after the inner loop has run over j = 0 .. n - 1
RECURSIVE ForceAccum(_, _, _)
ForceAccum(e, i, n) ==
  IF n = 0 THEN <<0, 0>>
  ELSE LET rest == ForceAccum(e, i, n - 1)
           add == PairForce(e, i, n - 1)
       IN <<rest[1] + add[1], rest[2] + add[2]>>

\* a retention that keeps the fraction friction of the velocity
velocityRetention_Friction(friction) == IF friction > 0 THEN friction ELSE 0

\* Math.max(0, 1 - friction)
velocityRetention(friction) == IF ONE - friction > 0 THEN ONE - friction ELSE 0

\* this.vx[i] = (this.vx[i] * velocityRetention) + (fx * timeScale), stored
NewVelocity(v, f, cfg) ==
  Round(v * velocityRetention(cfg.friction) + f * cfg.timeScale, ONE)

\* the first particle whose inner loop throws, numParticles when none does
FirstThrow(e) ==
  LET bad == {i \in Idx(e.numParticles) :
                \E j \in Idx(e.numParticles) : PairThrows(e, i, j)}
  IN IF bad = {} THEN e.numParticles
     ELSE CHOOSE i \in bad : \A k \in bad : i <= k

\* one turn of the outer loop: the inner loop over j on the store as the
\* earlier turns left it, then the write of particle i's velocity
\* a step of the outer loop that also pushes every neighbour back with the
\* opposite of the force it exerts on particle i
PairStep_Reaction(e, i) ==
  LET f == ForceAccum(e, i, e.numParticles)
      back(j) == IF j = i THEN <<0, 0>> ELSE PairForce(e, i, j)
  IN [e EXCEPT !.vx = [j \in DOMAIN e.vx |->
                         IF j = i THEN NewVelocity(e.vx[i], f[1], e.config)
                         ELSE e.vx[j] - Round(back(j)[1] * e.config.timeScale, ONE)],
               !.vy = [j \in DOMAIN e.vy |->
                         IF j = i THEN NewVelocity(e.vy[i], f[2], e.config)
                         ELSE e.vy[j] - Round(back(j)[2] * e.config.timeScale, ONE)]]

PairStep(e, i) ==
  LET f == ForceAccum(e, i, e.numParticles)
  IN [e EXCEPT !.vx[i] = NewVelocity(e.vx[i], f[1], e.config),
               !.vy[i] = NewVelocity(e.vy[i], f[2], e.config)]

\* the outer loop  for (let i = 0; i < n; i++)
RECURSIVE PairLoop(_, _)
PairLoop(e, n) == IF n = 0 THEN e ELSE PairStep(PairLoop(e, n - 1), n - 1)

\* the outer loop up to the first throw: the velocities of the particles
\* before it are rewritten, the others keep theirs
PairPass(e) == PairLoop(e, FirstThrow(e))

----------------------------------------------------------------------------
(* update(): positions *)

\* if (p < 0) p += extent; if (p >= extent) p -= extent
WrapPos(p, extent) ==
  LET p1 == IF p < 0 THEN p + extent ELSE p
  IN IF p1 >= extent THEN p1 - extent ELSE p1

\* this.x[i] += this.vx[i] * timeScale, stored, then wrapped
Integrate(p, v, timeScale, extent) ==
  WrapPos(Round(p * ONE + v * timeScale, ONE), extent)

PositionPass(e) ==
  [e EXCEPT
     !.x = [i \in Idx(e.numParticles) |->
              Integrate(e.x[i], e.vx[i], e.config.timeScale, e.width)],
     !.y = [i \in Idx(e.numParticles) |->
              Integrate(e.y[i], e.vy[i], e.config.timeScale, e.height)]]

\* update() throws (after the ripple pass) when a matrix lookup does
UpdateThrows(e) == FirstThrow(RipplePass(e)) < e.numParticles

\* an update() with one loop for both passes: particle i is moved as soon as
\* its velocity is written
FusedStep(e, i) ==
  LET e1 == PairStep(e, i)
  IN [e1 EXCEPT
        !.x[i] = Integrate(e1.x[i], e1.vx[i], e1.config.timeScale, e1.width),
        !.y[i] = Integrate(e1.y[i], e1.vy[i], e1.config.timeScale, e1.height)]

RECURSIVE FusedLoop(_, _)
FusedLoop(e, n) == IF n = 0 THEN e ELSE FusedStep(FusedLoop(e, n - 1), n - 1)

update_Fused(e) ==
  IF UpdateThrows(e) THEN PairPass(RipplePass(e))
  ELSE FusedLoop(RipplePass(e), e.numParticles)

\* update(): the engine it leaves behind, whether it returns or throws
update(e) ==
  IF UpdateThrows(e) THEN PairPass(RipplePass(e))
  ELSE PositionPass(PairPass(RipplePass(e)))

----------------------------------------------------------------------------
(* Inputs: configurations, window sizes, pointer positions, random draws *)

MaxTicks == 2
MaxRipples == 2
MaxFrames == 2
MaxHostRipples == 1

Cfg(counts, matrix, friction, timeScale, cutOffRadius, forceFactor, rippleStrength) ==
  [atomCounts |-> counts, interactionMatrix |-> matrix, friction |-> friction,
   timeScale |-> timeScale, cutOffRadius |-> cutOffRadius,
   forceFactor |-> forceFactor, rippleStrength |-> rippleStrength]

Matrix2 == <<<<ONE, -30>>, <<20, 80>>>>
ZeroMatrix2 == <<<<0, 0>>, <<0, 0>>>>

\* INITIAL_CONFIG scaled down to two types: it has no rippleStrength
InitialConfig == Cfg(<<2, 1>>, Matrix2, 20, ONE, 80 * ONE, 60, NaN)
\* the ripple slider moved
RippleConfig == Cfg(<<2, 1>>, Matrix2, 20, ONE, 80 * ONE, 60, 2 * SONE)
\* RuleMatrix's "all zero" button, friction and ripples off
ZeroConfig == Cfg(<<2, 1>>, ZeroMatrix2, 0, ONE, 80 * ONE, ONE, 0)
\* a count slider moved
CountsConfig == Cfg(<<1, 1>>, Matrix2, 20, 50, 80 * ONE, 60, -SONE)
\* every count slider at 0
EmptyConfig == Cfg(<<0, 0>>, Matrix2, 20, ONE, 80 * ONE, 60, 2 * SONE)
\* a matrix with one row for two types
ShortConfig == Cfg(<<2, 1>>, <<<<ONE, -30>>>>, 20, ONE, 80 * ONE, 60, 2 * SONE)

Configs == {InitialConfig, RippleConfig, ZeroConfig, CountsConfig, EmptyConfig,
            ShortConfig}

\* interactionMatrix is typeCount x typeCount
ValidShape(cfg) ==
  /\ Len(cfg.interactionMatrix) = Len(cfg.atomCounts)
  /\ \A r \in 1 .. Len(cfg.interactionMatrix) :
        Len(cfg.interactionMatrix[r]) = Len(cfg.atomCounts)

\* window.innerWidth, window.innerHeight
Sizes == {<<200 * ONE, 200 * ONE>>, <<60 * ONE, 60 * ONE>>}

\* pointer positions, in canvas coordinates
Pointers == {<<60 * ONE, 50 * ONE>>}

\* the values Math.random() returns during one initParticles(), as numerators
\* over RandDen: x and y of particle 0, of particle 1, of particle 2
Streams == {
  <<16384, 16384, 19661, 16384, 49152, 49152>>,
  <<RandDen - 1, 0, 1311, 0, 32768, 32768>>,
  <<16384, 16384, 16384, 16384, 26214, 29491>>
}

\* one type more than a Uint8Array element can number, with a particle of
\* the first type and a particle of the last
ManyTypesConfig ==
  Cfg([t \in 1 .. Uint8Range + 1 |-> IF t \in {1, Uint8Range + 1} THEN 1 ELSE 0],
      [a \in 1 .. Uint8Range + 1 |->
         [b \in 1 .. Uint8Range + 1 |-> IF a = b THEN ONE ELSE -30]],
      20, ONE, 80 * ONE, 60, 2 * SONE)

----------------------------------------------------------------------------
(* The state machine of the engine's public methods *)

\* probe is the record of one call of interactionForce on its own: NoProbe
\* while the engine runs
NoProbe == [dist |-> 0, g |-> 0, called |-> FALSE, f |-> 0]

\* drawn is what draw() read during the last handler: NoDraw when the handler
\* did not call it
NoDraw == [called |-> FALSE, x |-> <<>>, y |-> <<>>, ripples |-> <<>>,
           midTick |-> FALSE]

\* the engine becomes new, the outcome of one method call
SetEngine(new) ==
  \E e \in {new} :
     /\ x' = e.x /\ y' = e.y /\ vx' = e.vx /\ vy' = e.vy /\ group' = e.group
     /\ numParticles' = e.numParticles /\ ripples' = e.ripples
     /\ config' = e.config /\ width' = e.width /\ height' = e.height
     /\ groupOffsets' = e.groupOffsets

\* new ParticleEngine(canvas, config), then resize(window.innerWidth,
\* window.innerHeight) and initParticles(), as the component's first effect does
Constructed(cfg, size, stream) ==
  initParticles([x |-> <<>>, y |-> <<>>, vx |-> <<>>, vy |-> <<>>, group |-> <<>>,
                 numParticles |-> 0, ripples |-> <<>>, config |-> cfg,
                 width |-> size[1], height |-> size[2], groupOffsets |-> <<>>],
                stream)

Init ==
  /\ \E size \in Sizes, stream \in Streams :
       LET e == Constructed(InitialConfig, size, stream)
       IN /\ x = e.x /\ y = e.y /\ vx = e.vx /\ vy = e.vy /\ group = e.group
          /\ numParticles = e.numParticles /\ ripples = e.ripples
          /\ config = e.config /\ width = e.width /\ height = e.height
          /\ groupOffsets = e.groupOffsets
  /\ isPlaying = TRUE
  /\ framePending = TRUE
  /\ strayFrames = 0
  /\ mounted = TRUE
  /\ probe = NoProbe
  /\ threw = FALSE
  /\ drawn = NoDraw
  /\ ticks = 0

CallInitParticles ==
  /\ \E stream \in Streams : SetEngine(initParticles(Engine, stream))
  /\ threw' = FALSE
  /\ UNCHANGED <<hostVars, drawn, ticks>>

CallSetConfig ==
  /\ \E cfg \in Configs :
       IF countsChanged(config, cfg)
       THEN \E stream \in Streams : SetEngine(setConfig(Engine, cfg, stream))
       ELSE SetEngine(setConfig(Engine, cfg, <<>>))
  /\ threw' = (threw /\ ~countsChanged(config, config'))
  /\ UNCHANGED <<hostVars, drawn, ticks>>

CallResize ==
  /\ \E size \in Sizes : SetEngine(resize(Engine, size[1], size[2]))
  /\ UNCHANGED <<hostVars, threw, drawn, ticks>>

CallTriggerRipple ==
  /\ Len(ripples) < MaxRipples
  /\ \E p \in Pointers : SetEngine(triggerRipple(Engine, p[1], p[2]))
  /\ UNCHANGED <<hostVars, threw, drawn, ticks>>

CallUpdate ==
  /\ ticks < MaxTicks
  /\ SetEngine(update(Engine))
  /\ threw' = UpdateThrows(Engine)
  /\ ticks' = ticks + 1
  /\ UNCHANGED <<hostVars, drawn>>

Next == \/ CallInitParticles
        \/ CallSetConfig
        \/ CallResize
        \/ CallTriggerRipple
        \/ CallUpdate

Spec == Init /\ [][Next]_vars

----------------------------------------------------------------------------
(* The state machine of the canvas component: its effects and handlers,    *)
(* each run to completion by the browser's event loop                      *)

\* the configurations the control panel can produce: it edits entries of
\* the matrix and of the counts in place and never changes their shape
HostConfigs == {cfg \in Configs : ValidShape(cfg)}

\* draw(): reads the positions and the ripples, changes nothing; midTick
\* tells whether the last update() had thrown before it finished
draw(e, midTick) == [called |-> TRUE, x |-> e.x, y |-> e.y, ripples |-> e.ripples,
                     midTick |-> midTick]

\* a loop whose draw() reads the store before the position pass of update()
FrameEffect_DrawMidTick(e, throws) ==
  [engine |-> update(e),
   drawn |-> IF throws THEN NoDraw ELSE draw(PairPass(RipplePass(e)), TRUE),
   requests |-> ~throws]

\* loop(): update(), draw(), requestAnimationFrame(loop); an exception of
\* update() leaves the callback before draw() and before the next request
FrameEffect(e, throws) ==
  [engine |-> update(e),
   drawn |-> IF throws THEN NoDraw ELSE draw(update(e), FALSE),
   requests |-> ~throws]

\* frameIdRef.current = requestAnimationFrame(loop): the new callback is the
\* one frameIdRef names; a callback that was pending under the old id stays
\* pending and can no longer be cancelled
RequestFrame(pending, stray) ==
  [framePending |-> TRUE, strayFrames |-> stray + (IF pending THEN 1 ELSE 0)]

\* a game loop effect that never calls cancelAnimationFrame
GameLoopEffect_NoCancel(pending, stray, playing) ==
  IF playing THEN RequestFrame(pending, stray)
  ELSE [framePending |-> pending, strayFrames |-> stray]

\* the game loop effect when isPlaying changes: the cleanup of the previous
\* run cancels the frame frameIdRef names, then the effect requests a frame
\* when playing and cancels again when not
GameLoopEffect(pending, stray, playing) ==
  IF playing THEN RequestFrame(FALSE, stray)
  ELSE [framePending |-> FALSE, strayFrames |-> stray]

\* the browser runs one pending callback: the one frameIdRef names (named)
\* or another one
Frame ==
  /\ ticks < MaxFrames
  /\ \E named \in {b \in BOOLEAN : IF b THEN framePending ELSE strayFrames > 0} :
       \E r \in {FrameEffect(Engine, UpdateThrows(Engine))} :
       LET pending == framePending /\ ~named
           stray == IF named THEN strayFrames ELSE strayFrames - 1
           next == IF r.requests THEN RequestFrame(pending, stray)
                   ELSE [framePending |-> pending, strayFrames |-> stray]
       IN /\ SetEngine(r.engine)
          /\ drawn' = r.drawn
          /\ framePending' = next.framePending
          /\ strayFrames' = next.strayFrames
  /\ threw' = UpdateThrows(Engine)
  /\ ticks' = ticks + 1
  /\ UNCHANGED <<isPlaying, mounted, probe>>

\* the isPlaying prop changes: the config effect runs again with the same
\* config, the game loop effect cancels the pending frame and requests one
\* when playing
SetIsPlaying ==
  /\ mounted
  /\ isPlaying' = ~isPlaying
  /\ SetEngine(setConfig(Engine, config, <<>>))
  /\ drawn' = IF ~isPlaying' THEN draw(Engine, threw) ELSE NoDraw
  /\ LET r == GameLoopEffect(framePending, strayFrames, isPlaying')
     IN framePending' = r.framePending /\ strayFrames' = r.strayFrames
  /\ UNCHANGED <<mounted, probe, threw, ticks>>

\* the component unmounts: the cleanup of the game loop effect cancels the
\* frame frameIdRef names, the resize listener is removed
Unmount ==
  /\ mounted
  /\ mounted' = FALSE
  /\ framePending' = FALSE
  /\ drawn' = NoDraw
  /\ UNCHANGED <<engineVars, isPlaying, strayFrames, probe, threw, ticks>>

\* the config prop changes: setConfig(config), and draw() when paused
ConfigChanged ==
  /\ mounted
  /\ \E cfg \in HostConfigs :
       /\ cfg # config
       /\ IF countsChanged(config, cfg)
          THEN \E stream \in Streams : SetEngine(setConfig(Engine, cfg, stream))
          ELSE SetEngine(setConfig(Engine, cfg, <<>>))
  /\ threw' = (threw /\ ~countsChanged(config, config'))
  /\ drawn' = IF ~isPlaying THEN draw(Engine', threw') ELSE NoDraw
  /\ UNCHANGED <<hostVars, ticks>>

\* handleResize: resize(window.innerWidth, window.innerHeight), and draw()
\* when paused
WindowResized ==
  /\ mounted
  /\ \E size \in Sizes : SetEngine(resize(Engine, size[1], size[2]))
  /\ drawn' = IF ~isPlaying THEN draw(Engine', threw) ELSE NoDraw
  /\ UNCHANGED <<hostVars, threw, ticks>>

\* handleInteraction: triggerRipple at the pointer's canvas coordinates
PointerDown ==
  /\ mounted
  /\ Len(ripples) < MaxHostRipples
  /\ \E p \in Pointers : SetEngine(triggerRipple(Engine, p[1], p[2]))
  /\ drawn' = NoDraw
  /\ UNCHANGED <<hostVars, threw, ticks>>

NextHost == \/ Frame
            \/ SetIsPlaying
            \/ ConfigChanged
            \/ WindowResized
            \/ PointerDown
            \/ Unmount

SpecHost == Init /\ [][NextHost]_vars

----------------------------------------------------------------------------
(* The ripple lifecycle over many ticks: an empty store, so that only the   *)
(* ripple pass of update() does anything                                    *)

MaxLongTicks == 302

\* configurations without particles whose rippleStrength dies in its first
\* tick, is a usual one, and outlives the age limit
LongConfigs == {Cfg(<<0, 0>>, Matrix2, 20, ONE, 80 * ONE, 60, 52),
                Cfg(<<0, 0>>, Matrix2, 20, ONE, 80 * ONE, 60, 2 * SONE),
                Cfg(<<0, 0>>, Matrix2, 20, ONE, 80 * ONE, 60, 1000000 * SONE)}

InitLong ==
  /\ \E cfg \in LongConfigs :
       LET e == Constructed(cfg, <<200 * ONE, 200 * ONE>>, <<>>)
       IN /\ x = e.x /\ y = e.y /\ vx = e.vx /\ vy = e.vy /\ group = e.group
          /\ numParticles = e.numParticles /\ ripples = e.ripples
          /\ config = e.config /\ width = e.width /\ height = e.height
          /\ groupOffsets = e.groupOffsets
  /\ isPlaying = TRUE
  /\ framePending = TRUE
  /\ strayFrames = 0
  /\ mounted = TRUE
  /\ probe = NoProbe
  /\ threw = FALSE
  /\ drawn = NoDraw
  /\ ticks = 0

LongSetConfig ==
  /\ ticks < MaxTicks
  /\ \E cfg \in LongConfigs : SetEngine(setConfig(Engine, cfg, <<>>))
  /\ UNCHANGED <<hostVars, threw, drawn, ticks>>

LongTriggerRipple ==
  /\ ticks < MaxTicks
  /\ Len(ripples) < MaxRipples
  /\ \E p \in Pointers : SetEngine(triggerRipple(Engine, p[1], p[2]))
  /\ UNCHANGED <<hostVars, threw, drawn, ticks>>

LongUpdate ==
  /\ ticks < MaxLongTicks
  /\ SetEngine(update(Engine))
  /\ threw' = UpdateThrows(Engine)
  /\ ticks' = ticks + 1
  /\ UNCHANGED <<hostVars, drawn>>

NextLong == LongSetConfig \/ LongTriggerRipple \/ LongUpdate

SpecLong == InitLong /\ [][NextLong]_vars

\* one configuration for the whole run, a pointer that makes one ripple at a
\* time, and a game loop that keeps calling update()
LongPointerDown ==
  /\ ticks < MaxTicks
  /\ Len(ripples) < MaxHostRipples
  /\ \E p \in Pointers : SetEngine(triggerRipple(Engine, p[1], p[2]))
  /\ UNCHANGED <<hostVars, threw, drawn, ticks>>

NextLongFair == LongPointerDown \/ LongUpdate

SpecLongFair == InitLong /\ [][NextLongFair]_vars /\ WF_vars(LongUpdate)

----------------------------------------------------------------------------
(* The engine's public methods with configurations of two types and of more *)
(* types than a byte can number                                             *)

TypesConfigs == {RippleConfig, CountsConfig, ManyTypesConfig}

InitTypes ==
  /\ \E stream \in Streams :
       LET e == Constructed(RippleConfig, <<200 * ONE, 200 * ONE>>, stream)
       IN /\ x = e.x /\ y = e.y /\ vx = e.vx /\ vy = e.vy /\ group = e.group
          /\ numParticles = e.numParticles /\ ripples = e.ripples
          /\ config = e.config /\ width = e.width /\ height = e.height
          /\ groupOffsets = e.groupOffsets
  /\ isPlaying = TRUE
  /\ framePending = TRUE
  /\ strayFrames = 0
  /\ mounted = TRUE
  /\ probe = NoProbe
  /\ threw = FALSE
  /\ drawn = NoDraw
  /\ ticks = 0

TypesInitParticles ==
  /\ \E stream \in Streams : SetEngine(initParticles(Engine, stream))
  /\ threw' = FALSE
  /\ UNCHANGED <<hostVars, drawn, ticks>>

TypesSetConfig ==
  /\ \E cfg \in TypesConfigs :
       IF countsChanged(config, cfg)
       THEN \E stream \in Streams : SetEngine(setConfig(Engine, cfg, stream))
       ELSE SetEngine(setConfig(Engine, cfg, <<>>))
  /\ threw' = (threw /\ ~countsChanged(config, config'))
  /\ UNCHANGED <<hostVars, drawn, ticks>>

TypesResize ==
  /\ \E size \in Sizes : SetEngine(resize(Engine, size[1], size[2]))
  /\ UNCHANGED <<hostVars, threw, drawn, ticks>>

TypesTriggerRipple ==
  /\ Len(ripples) < MaxHostRipples
  /\ \E p \in Pointers : SetEngine(triggerRipple(Engine, p[1], p[2]))
  /\ UNCHANGED <<hostVars, threw, drawn, ticks>>

TypesUpdate ==
  /\ ticks < MaxTicks
  /\ SetEngine(update(Engine))
  /\ threw' = UpdateThrows(Engine)
  /\ ticks' = ticks + 1
  /\ UNCHANGED <<hostVars, drawn>>

NextTypes == \/ TypesInitParticles
             \/ TypesSetConfig
             \/ TypesResize
             \/ TypesTriggerRipple
             \/ TypesUpdate

SpecTypes == InitTypes /\ [][NextTypes]_vars

----------------------------------------------------------------------------
(* One or two ticks from chosen placements: the force law, the velocity     *)
(* update and the ripple impulses of update()                               *)

\* friction at 1.0 and the time scale at 0.5
FrictionOneConfig == Cfg(<<2, 1>>, Matrix2, ONE, 50, 80 * ONE, 60, 2 * SONE)
\* two particles of two types, coefficient 0.8 from the first to the second
TwoBodyConfig == Cfg(<<1, 1>>, <<<<50, 80>>, <<-40, 20>>>>, 0, ONE, 100 * ONE,
                     ONE, NaN)
\* a rippleStrength whose first decay falls below 0.05
FaintConfig == Cfg(<<2, 1>>, Matrix2, 20, ONE, 80 * ONE, 60, 52)

\* a cut-off radius so short that no two particles of the placements below
\* interact
NoReachConfig == Cfg(<<2, 1>>, Matrix2, 20, ONE, 5 * ONE, 60, 2 * SONE)

TickConfigs == {RippleConfig, FrictionOneConfig, TwoBodyConfig, FaintConfig,
                NoReachConfig}

\* placements in a 200 x 200 world: (50,50) (60,50) (150,150);
\* (10,50) (190,50) (100,100); (50,50) (80,90) (50,50);
\* (50,50) (115,50) (60,50); (50,50) (129.8,50) (50,129.9);
\* (50,50) (150,150) (150,50)
TickStreams == {
  <<16384, 16384, 19661, 16384, 49152, 49152>>,
  <<3277, 16384, 62259, 16384, 32768, 32768>>,
  <<16384, 16384, 26214, 29491, 16384, 16384>>,
  <<16384, 16384, 37683, 16384, 19661, 16384>>,
  <<16384, 16384, 42533, 16384, 16384, 42566>>,
  <<16384, 16384, 49152, 49152, 49152, 16384>>
}

InitTick ==
  /\ \E cfg \in TickConfigs, stream \in TickStreams :
       LET e == Constructed(cfg, <<200 * ONE, 200 * ONE>>, stream)
       IN /\ x = e.x /\ y = e.y /\ vx = e.vx /\ vy = e.vy /\ group = e.group
          /\ numParticles = e.numParticles /\ ripples = e.ripples
          /\ config = e.config /\ width = e.width /\ height = e.height
          /\ groupOffsets = e.groupOffsets
  /\ isPlaying = TRUE
  /\ framePending = TRUE
  /\ strayFrames = 0
  /\ mounted = TRUE
  /\ probe = NoProbe
  /\ threw = FALSE
  /\ drawn = NoDraw
  /\ ticks = 0

\* setConfig with the counts the store was built for: no rebuild
TickSetConfig ==
  /\ \E cfg \in TickConfigs :
       /\ ~countsChanged(config, cfg)
       /\ SetEngine(setConfig(Engine, cfg, <<>>))
  /\ UNCHANGED <<hostVars, threw, drawn, ticks>>

TickTriggerRipple ==
  /\ Len(ripples) < MaxRipples
  /\ \E p \in Pointers : SetEngine(triggerRipple(Engine, p[1], p[2]))
  /\ UNCHANGED <<hostVars, threw, drawn, ticks>>

TickUpdate ==
  /\ ticks < MaxTicks
  /\ SetEngine(update(Engine))
  /\ threw' = UpdateThrows(Engine)
  /\ ticks' = ticks + 1
  /\ UNCHANGED <<hostVars, drawn>>

NextTick == TickSetConfig \/ TickTriggerRipple \/ TickUpdate

SpecTick == InitTick /\ [][NextTick]_vars

----------------------------------------------------------------------------
(* interactionForce on its own: one call on a normalized distance in [0, 1] *)
(* and a coefficient                                                        *)

Coeffs == {-ONE, -30, 0, 80, ONE}

InitForce ==
  /\ LET e == Constructed(EmptyConfig, <<200 * ONE, 200 * ONE>>, <<>>)
     IN /\ x = e.x /\ y = e.y /\ vx = e.vx /\ vy = e.vy /\ group = e.group
        /\ numParticles = e.numParticles /\ ripples = e.ripples
        /\ config = e.config /\ width = e.width /\ height = e.height
        /\ groupOffsets = e.groupOffsets
  /\ isPlaying = TRUE
  /\ framePending = TRUE
  /\ strayFrames = 0
  /\ mounted = TRUE
  /\ threw = FALSE
  /\ drawn = NoDraw
  /\ ticks = 0
  /\ \E d \in 0 .. ONE, g \in Coeffs :
        probe = [dist |-> d, g |-> g, called |-> FALSE, f |-> 0]

CallInteractionForce ==
  /\ ~probe.called
  /\ probe' = [probe EXCEPT !.called = TRUE,
                            !.f = interactionForce(probe.dist, probe.g)]
  /\ UNCHANGED <<engineVars, isPlaying, framePending, strayFrames, mounted,
                 threw, drawn, ticks>>

NextForce == CallInteractionForce

SpecForce == InitForce /\ [][NextForce]_vars

----------------------------------------------------------------------------
(* Properties *)

\* a step that is one update() call, and one that returned
UpdateStep == ticks' = ticks + 1
UpdateReturned == UpdateStep /\ ~threw'

particleVars == <<x, y, vx, vy, group, numParticles, groupOffsets>>

InBounds ==
  \A i \in Idx(numParticles) :
     0 <= x[i] /\ x[i] < width /\ 0 <= y[i] /\ y[i] < height

AtRest == \A i \in Idx(numParticles) : vx[i] = 0 /\ vy[i] = 0

\* C1: after every update() that returns, whatever calls came before it,
\* every particle lies in [0, width) x [0, height).
C1_WrapAfterUpdate == [][UpdateReturned => InBounds']_vars

AllZeroMatrix(cfg) ==
  \A r \in 1 .. Len(cfg.interactionMatrix) :
     \A c \in 1 .. Len(cfg.interactionMatrix[r]) : cfg.interactionMatrix[r][c] = 0

\* every entry of the matrix 0, every velocity 0, no ripples
QuiescentAnywhere == AllZeroMatrix(config) /\ AtRest /\ ripples = <<>>

\* the same, with every particle placed inside the world
Quiescent == QuiescentAnywhere /\ InBounds

\* q is the coordinate p, or p moved by one extent when p is not in
\* [0, extent): the same point of the torus
SamePoint(p, q, extent) ==
  IF 0 <= p /\ p < extent THEN q = p ELSE (q = p - extent \/ q = p + extent)

\* no two particles at a wrapped distance dist > 0 for which update() finds
\* dist / cutOffRadius < 0.3
NoCorePair ==
  \A i, j \in Idx(numParticles) :
     InRange(Engine, i, j) =>
        Round(Sqrt(PairDistSq(Engine, i, j)) * ONE, config.cutOffRadius)
          >= (3 * ONE) \div 10

\* C2 as stated: with a zero matrix, zero velocities and no ripples an
\* update() leaves every position and velocity unchanged, for every placement
\* of the particles in the world.
C2_StationaryAnyPlacement ==
  [][(UpdateStep /\ Quiescent) => UNCHANGED <<x, y, vx, vy>>]_vars

\* C2 amended: with a zero matrix, zero velocities and no ripples, and no two
\* particles closer than 0.3 * cutOffRadius without coinciding, an update()
\* leaves every velocity 0 and every particle at the same point: a coordinate
\* inside the world is unchanged, one outside it is moved by one extent.
C2_StationaryOutsideCore ==
  [][(UpdateStep /\ QuiescentAnywhere /\ NoCorePair) =>
       /\ UNCHANGED <<vx, vy>>
       /\ \A i \in Idx(numParticles) :
             /\ SamePoint(x[i], x'[i], width)
             /\ SamePoint(y[i], y'[i], height)]_vars

\* two updates have run, two particles are within the cut-off radius of each
\* other (and outside the core), and nothing moves
C2_Witness ==
  /\ ticks = MaxTicks /\ Quiescent /\ NoCorePair
  /\ \E i, j \in Idx(numParticles) : InRange(Engine, i, j)

\* C3: a configuration whose matrix is not typeCount x typeCount is never
\* installed, so that no update() fails on a matrix lookup.
C3_ConfigShapeRejected == ValidShape(config) /\ ~threw

\* the store a rebuild for the counts of cfg leaves, but for the positions
StoreBuiltFor(cfg) ==
  /\ numParticles = PrefixSum(cfg.atomCounts, Len(cfg.atomCounts))
  /\ DOMAIN x = Idx(numParticles) /\ DOMAIN y = Idx(numParticles)
  /\ DOMAIN vx = Idx(numParticles) /\ DOMAIN vy = Idx(numParticles)
  /\ DOMAIN group = Idx(numParticles)
  /\ \A i \in Idx(numParticles) : group[i] \in Idx(Len(cfg.atomCounts))

\* C4: a setConfig() whose counts differ from the previous ones in length or
\* in an element rebuilds the store (new count, velocities 0); one whose
\* counts are the same leaves positions, velocities and types as they were.
C4_RebuildIffCountsChanged ==
  [][config' # config =>
       IF config'.atomCounts # config.atomCounts
       THEN StoreBuiltFor(config)' /\ AtRest'
       ELSE UNCHANGED particleVars]_vars

\* a configuration other than the first is installed with the first one's
\* counts, updates have run and a particle is moving
C4_Witness ==
  /\ config # InitialConfig /\ ~countsChanged(InitialConfig, config)
  /\ ticks >= 1 /\ ~AtRest

\* C5: a store just built by initParticles() has sum(counts) particles, arrays
\* of that length, velocities 0, every position in [0, width) x [0, height)
\* and every type a valid index; with no particles an update() changes none.
C5_InitParticlesStore ==
  [][/\ (~UpdateStep /\ particleVars' # particleVars)
          => (StoreBuiltFor(config)' /\ AtRest' /\ InBounds')
     /\ (UpdateStep /\ numParticles = 0) => UNCHANGED particleVars]_vars

\* s times 0.95, k times: the first half of the steps, then the rest
RECURSIVE DecayTimes(_, _)
DecayTimes(s, k) ==
  IF k = 0 THEN s
  ELSE IF k = 1 THEN MulDiv(s, 95, 100)
  ELSE CHOOSE r \in {DecayTimes(half, rest) :
                       half \in {DecayTimes(s, k \div 2)},
                       rest \in {k - (k \div 2)}} : TRUE

\* the ripple's strength is at least 0.05 and its age at most 300
Alive(rp) == rp.strength >= (5 * SONE) \div 100 /\ rp.age <= 300

\* every ripple one tick older and 0.95 times as strong
AdvanceAll(rs) ==
  [r \in 1 .. Len(rs) |->
     [rs[r] EXCEPT !.age = @ + 1, !.strength = MulDiv(@, 95, 100)]]

\* C6: a ripple in the list has been advanced once by each update() since
\* its creation: its age is their number k and its strength is s0 times 0.95,
\* k times; an update() removes exactly the ripples whose new strength is
\* below 0.05 or whose new age is above 300, and keeps the others in order.
C6_RippleDecay ==
  /\ [](\A r \in 1 .. Len(ripples) :
          /\ ripples[r].age = ticks - ripples[r].t0
          /\ ripples[r].strength = DecayTimes(ripples[r].s0, ripples[r].age))
  /\ [][UpdateStep => ripples' = SelectSeq(AdvanceAll(ripples), Alive)]_vars

\* a ripple made after the first update() has reached the age limit alive
C6_Witness ==
  /\ Len(ripples) = 1
  /\ ripples[1].age = RIPPLE_MAX_AGE
  /\ Alive(ripples[1])
  /\ ripples[1].t0 > 0

\* C7: a step that changes the ripple list outside update() is one
\* triggerRipple(): the strength of the configuration is above 0, and the list
\* gains at its end one ripple at a pointer position with age 0 and that
\* strength; nothing else changes.
C7_TriggerRipple ==
  /\ [](\A p \in Pointers :
          triggerRipple(Engine, p[1], p[2]) =
            IF Gt(config.rippleStrength, 0)
            THEN [Engine EXCEPT !.ripples =
                    Append(@, [x |-> p[1], y |-> p[2], age |-> 0,
                               strength |-> config.rippleStrength,
                               s0 |-> config.rippleStrength, t0 |-> ticks])]
            ELSE Engine)
  /\ [][(~UpdateStep /\ ripples' # ripples) =>
       /\ Gt(config.rippleStrength, 0)
       /\ Len(ripples') = Len(ripples) + 1
       /\ SubSeq(ripples', 1, Len(ripples)) = ripples
       /\ \E p \in Pointers :
             /\ ripples'[Len(ripples')].x = p[1]
             /\ ripples'[Len(ripples')].y = p[2]
       /\ ripples'[Len(ripples')].age = 0
       /\ ripples'[Len(ripples')].strength = config.rippleStrength
       /\ UNCHANGED <<particleVars, config, width, height>>]_vars

\* a ripple was added behind an older one while particles were moving
C7_Witness ==
  /\ Len(ripples) = 2
  /\ ripples[2].age = 0 /\ ripples[1].age > 0
  /\ ~AtRest

\* the last handler called draw(), and draw() read the store as the handler
\* left it, after an update() that had finished
DrawSawWholeTick ==
  drawn.called =>
     /\ ~drawn.midTick
     /\ drawn.x = x /\ drawn.y = y /\ drawn.ripples = ripples

\* C8: a frame is one whole update(): it changes neither the configuration
\* nor the bounds and adds no ripple, the handlers of the configuration, the
\* window and the pointer change the store between two frames only, and
\* every draw() reads the store of a finished tick.
C8_TickAtomic ==
  /\ [](DrawSawWholeTick /\ ~threw)
  /\ [][/\ UpdateStep =>
             /\ Engine' = update(Engine)
             /\ UNCHANGED <<config, width, height>>
             /\ \A r \in 1 .. Len(ripples') : ripples'[r].age > 0
        /\ ~UpdateStep =>
             \/ UNCHANGED <<x, y, vx, vy>>
             \/ (config'.atomCounts # config.atomCounts /\ AtRest')]_vars

\* a frame has drawn moving particles and a ripple made by the pointer, under
\* a configuration set since the start
C8_Witness ==
  /\ drawn.called /\ isPlaying /\ ticks >= 1
  /\ ~AtRest
  /\ Len(ripples) = 1 /\ ripples[1].age >= 1
  /\ config # InitialConfig

\* C10: a step that changes the world bounds changes nothing else of the
\* engine: positions, velocities, types, count, configuration and ripples
\* are as before.
C10_ResizeFrame ==
  [][(width' # width \/ height' # height) =>
       UNCHANGED <<particleVars, config, ripples>>]_vars

\* before any update(), a particle lies beyond the world's width: the world
\* was shrunk and the particle stayed where it was built
C10_Witness ==
  /\ ticks = 0
  /\ \E i \in Idx(numParticles) : x[i] > width

\* C11: with friction 1.0, an update() that returns leaves every particle
\* with the velocity forceAccum * timeScale, forceAccum being the pairwise
\* force accumulated for it from the positions of this tick: neither its
\* velocity before the tick nor a ripple impulse of this tick is in it.
C11_FrictionOne ==
  [][(UpdateStep /\ ~threw' /\ config.friction = ONE) =>
       \A i \in Idx(numParticles) :
          /\ vx'[i] = Round(ForceAccum(Engine, i, numParticles)[1] * config.timeScale, ONE)
          /\ vy'[i] = Round(ForceAccum(Engine, i, numParticles)[2] * config.timeScale, ONE)]_vars

\* a tick with friction 1.0 has run with a ripple that was live in it, and
\* particles move
C11_Witness ==
  /\ config.friction = ONE /\ config.timeScale # ONE
  /\ ticks = MaxTicks
  /\ Len(ripples) >= 1 /\ ripples[1].age = MaxTicks
  /\ ~AtRest

\* the force law as the specification writes it, beta = 0.3: nd / 0.3 - 1
\* below 0.3, coeff * (1 - |2 nd - 1 - 0.3| / 0.7) from 0.3 to 1
ForceLaw(nd, coeff) ==
  IF nd < 30 THEN Round(nd * ONE, 30) - ONE
  ELSE Round(coeff * (ONE - Round(Abs(2 * nd - ONE - 30) * ONE, 70)), ONE)

\* two particles at rest, no ripples, cutOffRadius 100, forceFactor 1,
\* friction 0, timeScale 1
TwoBodySetting ==
  /\ numParticles = 2 /\ AtRest /\ ripples = <<>>
  /\ config.cutOffRadius = 100 * ONE /\ config.forceFactor = ONE
  /\ config.friction = 0 /\ config.timeScale = ONE

\* C12: in that setting, with the particles at a wrapped distance d,
\* 0 < d < cutOffRadius, one update() gives particle i the velocity
\* ForceLaw(d / 100, interactionMatrix[type i][type j]) along the wrapped
\* line from i to the other particle j, and nothing across that line.
C12_TwoBodyVelocity ==
  [][(UpdateStep /\ TwoBodySetting) =>
       \A i, j \in Idx(numParticles) :
          LET dSq == PairDistSq(Engine, i, j)
              d == Sqrt(dSq)
              F == ForceLaw(Round(d * ONE, 100 * ONE),
                            config.interactionMatrix[group[i] + 1][group[j] + 1])
          IN (i # j /\ 0 < dSq /\ dSq < (100 * ONE) * (100 * ONE)) =>
                /\ vx'[i] = Round(Round(PairDx(Engine, i, j) * ONE, d) * F, ONE)
                /\ vy'[i] = Round(Round(PairDy(Engine, i, j) * ONE, d) * F, ONE)]_vars

\* one tick has pulled the particle of the first type toward the other one,
\* which lay up and to the right of it, the coefficient being 0.8
C12_Witness ==
  /\ config = TwoBodyConfig /\ ticks = 1
  /\ config.interactionMatrix[group[0] + 1][group[1] + 1] = 80
  /\ vx[0] > 0 /\ vy[0] > 0

\* C13: for a normalized distance nd in [0, 1] and any coefficient,
\* interactionForce returns nd / 0.3 - 1 below 0.3, a value in [-1, 0)
\* whatever the coefficient, and coeff * (1 - |2 nd - 1.3| / 0.7) from 0.3 to
\* 1: -1 at 0, 0 at 0.3 and at 1, and the coefficient 1.0 at 0.65.
C13_ForceLaw ==
  probe.called =>
     /\ probe.f = ForceLaw(probe.dist, probe.g)
     /\ probe.dist < 30 => (-ONE <= probe.f /\ probe.f < 0
                             /\ probe.f = Round(probe.dist * ONE, 30) - ONE)
     /\ probe.dist = 0 => probe.f = -ONE
     /\ probe.dist \in {30, ONE} => probe.f = 0
     /\ (probe.dist = 65 /\ probe.g = ONE) => probe.f = ONE

\* interactionForce has returned the coefficient 1.0 at the middle of the band
C13_Witness ==
  probe.called /\ probe.dist = 65 /\ probe.g = ONE /\ probe.f = ONE

\* C14: a frame callback is pending exactly while the component is mounted
\* and playing, and never more than one; a frame is one update() followed by
\* one draw() of the updated store and the request of the next frame; no
\* update() runs while paused or after the unmount, whatever the toggles.
C14_FrameLoop ==
  /\ [](strayFrames = 0 /\ (framePending <=> (isPlaying /\ mounted)))
  /\ [][UpdateStep =>
          /\ isPlaying /\ mounted
          /\ Engine' = update(Engine)
          /\ drawn'.called
          /\ drawn'.x = x' /\ drawn'.y = y' /\ drawn'.ripples = ripples'
          /\ framePending' /\ strayFrames' = 0]_vars

\* frames have run, then the loop was paused: nothing is pending and the
\* pause has drawn the store
C14_Witness ==
  /\ mounted /\ ~isPlaying /\ ~framePending
  /\ ticks >= 1 /\ drawn.called /\ ~AtRest

\* the reference tick: the ripple pass, then the force on every particle
\* from the positions at the start of the tick, then every velocity, then
\* every position
RefTick(e) ==
  LET r == RipplePass(e)
      n == e.numParticles
      keep == IF ONE - e.config.friction > 0 THEN ONE - e.config.friction ELSE 0
      ts == e.config.timeScale
      force == [i \in Idx(n) |-> ForceAccum(e, i, n)]
      nvx == [i \in Idx(n) |-> Round(r.vx[i] * keep + force[i][1] * ts, ONE)]
      nvy == [i \in Idx(n) |-> Round(r.vy[i] * keep + force[i][2] * ts, ONE)]
  IN [r EXCEPT
        !.vx = nvx, !.vy = nvy,
        !.x = [i \in Idx(n) |-> WrapPos(Round(e.x[i] * ONE + nvx[i] * ts, ONE), e.width)],
        !.y = [i \in Idx(n) |-> WrapPos(Round(e.y[i] * ONE + nvy[i] * ts, ONE), e.height)]]

\* C15: an update() that returns leaves the store the reference tick
\* leaves: forces from the tick-start positions of all particles,
\* velocity * max(0, 1 - friction) + forceAccum * timeScale, then
\* position + velocity * timeScale.
C15_ReferenceTick ==
  [][(UpdateStep /\ ~threw') => Engine' = RefTick(Engine)]_vars

\* three particles, each within the cut-off radius of another, all moving
\* after two ticks
C15_Witness ==
  /\ numParticles = 3 /\ ticks = MaxTicks
  /\ \A i \in Idx(numParticles) :
        /\ vx[i] # 0 \/ vy[i] # 0
        /\ \E j \in Idx(numParticles) : InRange(Engine, i, j)

\* the sum over the first k ripples of rs of the impulse each one, advanced
\* and still alive, gives a particle at (px, py): c = 1 for x, 2 for y
RECURSIVE SumPush(_, _, _, _, _)
SumPush(rs, k, px, py, c) ==
  IF k = 0 THEN 0
  ELSE SumPush(rs, k - 1, px, py, c)
       + (IF Alive(AdvanceAll(rs)[k])
          THEN RipplePush(AdvanceAll(rs)[k], px, py, width, height)[c]
          ELSE 0)

\* the ripple pass changes each velocity by the sum of the impulses of the
\* ripples, each taken on its own
ImpulsesSum ==
  \A i \in Idx(numParticles) :
     /\ RipplePass(Engine).vx[i] = vx[i] + SumPush(ripples, Len(ripples), x[i], y[i], 1)
     /\ RipplePass(Engine).vy[i] = vy[i] + SumPush(ripples, Len(ripples), x[i], y[i], 2)

\* C16 as stated: the ripple loop handles the ripples in insertion order,
\* the oldest first, and the impulses of the ripples sum.
C16_InsertionOrder ==
  /\ \A k \in 1 .. Len(ripples) : RippleVisits(Engine)[k] = k
  /\ ImpulsesSum

\* C16 amended: the ripple loop handles the ripples from the newest to the
\* oldest, and the impulses of the ripples sum.
C16_NewestFirst ==
  /\ Len(RippleVisits(Engine)) = Len(ripples)
  /\ \A k \in 1 .. Len(ripples) : RippleVisits(Engine)[k] = Len(ripples) - k + 1
  /\ ImpulsesSum

\* two live ripples of different ages have both pushed a particle that lies
\* in the band of each of them
C16_Witness ==
  /\ Len(ripples) = 2 /\ ripples[1].age >= 2 /\ ripples[2].age >= 1
  /\ \E i \in Idx(numParticles) :
        /\ vx[i] # 0
        /\ RipplePush(Advance(ripples[1]), x[i], y[i], width, height) # <<0, 0>>
        /\ RipplePush(Advance(ripples[2]), x[i], y[i], width, height) # <<0, 0>>

\* the ripple, one tick older and 0.95 times as strong, is not removed
StaysAlive(rp) ==
  MulDiv(rp.strength, 95, 100) >= (5 * SONE) \div 100 /\ rp.age + 1 <= 300

\* C17: an update() leaves the store it would leave had the ripples it
\* removes not been in the list: a removed ripple changes no velocity, and a
\* ripple whose first decay falls below 0.05 never does.
C17_DeadRippleSilent ==
  [][UpdateStep =>
       LET e0 == update([Engine EXCEPT !.ripples = SelectSeq(ripples, StaysAlive)])
       IN /\ vx' = e0.vx /\ vy' = e0.vy /\ x' = e0.x /\ y' = e0.y
          /\ ripples' = e0.ripples]_vars

\* after a tick, a ripple is in the list that the next update() will remove,
\* and a particle lies in the band its wavefront will then have
C17_Witness ==
  /\ ticks = 1
  /\ \E r \in 1 .. Len(ripples) :
        /\ ~StaysAlive(ripples[r])
        /\ \E i \in Idx(numParticles) :
              RipplePush(Advance(ripples[r]), x[i], y[i], width, height) # <<0, 0>>

\* the shortest displacement from a to b on a circle of length extent
TorusDelta(a, b, extent) ==
  LET d == b - a
  IN IF 2 * d > extent THEN d - extent
     ELSE IF 2 * d < -extent THEN d + extent ELSE d

\* the impulse the specification gives a particle at (px, py) for a live
\* ripple of age a and strength s at (ox, oy): away from the origin, of
\* magnitude (1 - |d - 6 a| / 30) * s * 5 when |d - 6 a| < 30 and d # 0
ImpulseLaw(ox, oy, a, st, px, py) ==
  LET dx == TorusDelta(ox, px, width)
      dy == TorusDelta(oy, py, height)
      d == Sqrt(dx * dx + dy * dy)
      off == Abs(d - 6 * a * ONE)
      intensity == ONE - Round(off, 30)
      along(c) == Round(Round(Round(c * ONE, d) * intensity, ONE) * (st * 5), SONE)
  IN IF off < 30 * ONE /\ d # 0 THEN <<along(dx), along(dy)>> ELSE <<0, 0>>

\* C18: a ripple that the next update() advances to age a and strength s
\* and keeps gives a particle the impulse of the law above, which points
\* away from the origin; a particle at the origin or with |d - 6 a| >= 30
\* gets none.
C18_RippleImpulse ==
  \A r \in 1 .. Len(ripples) :
     StaysAlive(ripples[r]) =>
        \A i \in Idx(numParticles) :
           LET rp == AdvanceAll(ripples)[r]
               push == RipplePush(rp, x[i], y[i], width, height)
           IN /\ push = ImpulseLaw(rp.x, rp.y, rp.age, rp.strength, x[i], y[i])
              /\ push[1] * TorusDelta(rp.x, x[i], width) >= 0
              /\ push[2] * TorusDelta(rp.y, y[i], height) >= 0

\* a tick with a live ripple has pushed the particle in its band away from
\* the origin and left alone the particle at the origin and the one far off
C18_Witness ==
  /\ ticks = 1 /\ Len(ripples) = 1 /\ ripples[1].age = 1
  /\ \E i, j, k \in Idx(numParticles) :
        /\ x[i] = ripples[1].x /\ y[i] = ripples[1].y /\ vx[i] = 0 /\ vy[i] = 0
        /\ x[j] < ripples[1].x /\ vx[j] < 0
        /\ x[k] > ripples[1].x + 36 * ONE /\ vx[k] = 0 /\ vy[k] = 0

\* the pair (i, j) is one the pairwise pass must skip: the same particle,
\* coincident particles, or particles at the cut-off radius or beyond
MustSkip(i, j) ==
  \/ i = j
  \/ PairDistSq(Engine, i, j) = 0
  \/ PairDistSq(Engine, i, j) >= config.cutOffRadius * config.cutOffRadius

\* a skipped pair is not evaluated and adds no force, and a particle all of
\* whose pairs are skipped has no accumulated force
SkippedPairsAddNothing ==
  \A i \in Idx(numParticles) :
     /\ \A j \in Idx(numParticles) :
           MustSkip(i, j) =>
              (~InRange(Engine, i, j) /\ PairForce(Engine, i, j) = <<0, 0>>)
     /\ (\A j \in Idx(numParticles) : MustSkip(i, j)) =>
           ForceAccum(Engine, i, numParticles) = <<0, 0>>

\* C19 as stated: skipped pairs add nothing, and interactionForce is never
\* invoked with a distance 0 or with a normalized distance of 1 or more.
C19_NeverAtOne ==
  /\ SkippedPairsAddNothing
  /\ \A i, j \in Idx(numParticles) :
        InRange(Engine, i, j) =>
           (Sqrt(PairDistSq(Engine, i, j)) > 0 /\ NormDist(Engine, i, j) < ONE)

\* C19 amended: skipped pairs add nothing, and interactionForce is invoked
\* with a distance above 0 and a normalized distance of at most 1, which it
\* reaches when the quotient rounds to 1.
C19_AtMostOne ==
  /\ SkippedPairsAddNothing
  /\ \A i, j \in Idx(numParticles) :
        InRange(Engine, i, j) =>
           (Sqrt(PairDistSq(Engine, i, j)) > 0 /\ NormDist(Engine, i, j) <= ONE)

\* after a tick: an evaluated pair whose normalized distance is 1 and which
\* adds no force, next to a pair beyond the cut-off radius
C19_Witness ==
  /\ ticks >= 1
  /\ \E i, j, k \in Idx(numParticles) :
        /\ InRange(Engine, i, j)
        /\ NormDist(Engine, i, j) = ONE
        /\ PairForce(Engine, i, j) = <<0, 0>>
        /\ j # k /\ MustSkip(j, k)
        /\ ~InRange(Engine, j, k)

\* C20: a ripple in the list was created at most 300 update() calls ago, so
\* that it is absent after 301 of them; an update() adds no ripple and makes
\* every ripple it keeps one tick older; and while update() keeps being
\* called and triggerRipple() stops, a list with ripples becomes empty.
C20_RippleRemoved ==
  /\ [](\A r \in 1 .. Len(ripples) : ticks - ripples[r].t0 <= 300)
  /\ [][UpdateStep =>
          /\ Len(ripples') <= Len(ripples)
          /\ \A k \in 1 .. Len(ripples') :
                \E r \in 1 .. Len(ripples) :
                   /\ ripples'[k].t0 = ripples[r].t0
                   /\ ripples'[k].age = ripples[r].age + 1]_vars
  /\ (ripples # <<>>) ~> (ripples = <<>>)

\* a ripple made after the first update() that 300 update() calls have left
\* in the list: the next one is its 301st
C20_Witness ==
  /\ ticks = 301
  /\ Len(ripples) = 1
  /\ ripples[1].t0 = 1
  /\ ripples[1].strength >= (5 * SONE) \div 100

\* groupOffsets starts at 0, steps by the counts of the configuration, ends
\* at numParticles, and group[i] = t exactly for the i from groupOffsets[t]
\* up to groupOffsets[t + 1]
OffsetsMatchGroups ==
  LET counts == config.atomCounts
      n == Len(counts)
  IN /\ DOMAIN groupOffsets = 0 .. n
     /\ groupOffsets[0] = 0
     /\ \A t \in Idx(n) : groupOffsets[t + 1] - groupOffsets[t] = counts[t + 1]
     /\ groupOffsets[n] = numParticles
     /\ \A i \in Idx(numParticles) : \A t \in Idx(n) :
           (group[i] = t) <=> (groupOffsets[t] <= i /\ i < groupOffsets[t + 1])

\* a step of update(), of resize() or of triggerRipple()
KeepsStoreStep ==
  \/ UpdateStep
  \/ width' # width \/ height' # height
  \/ Len(ripples') > Len(ripples)

\* C21: in every reachable state groupOffsets and group agree with each other
\* and with the counts of the configuration; update(), resize() and
\* triggerRipple() change neither.
C21_GroupOffsets ==
  /\ []OffsetsMatchGroups
  /\ [][KeepsStoreStep => UNCHANGED <<group, groupOffsets>>]_vars

\* the engine with the coefficient of row a, column b of its matrix set to c
WithCoeff(a, b, c) ==
  [Engine EXCEPT !.config.interactionMatrix[a + 1][b + 1] = c]

\* what the specification has the pair (i, j) add to the force on i: the
\* force law at the coefficient of row group[i], column group[j], times
\* forceFactor, along the wrapped line from i to j
RowColumnForce(i, j) ==
  LET d == Sqrt(PairDistSq(Engine, i, j))
      F == Round(ForceLaw(Round(d * ONE, config.cutOffRadius),
                          config.interactionMatrix[group[i] + 1][group[j] + 1])
                 * config.forceFactor, ONE)
  IN <<Round(Round(PairDx(Engine, i, j) * ONE, d) * F, ONE),
       Round(Round(PairDy(Engine, i, j) * ONE, d) * F, ONE)>>

InWorld(px, py) == 0 <= px /\ px < width /\ 0 <= py /\ py < height

\* d is the difference raw up to a multiple of the extent, and is at most
\* half the extent long
ShortestOnTorus(d, raw, extent) ==
  /\ (d - raw) % extent = 0
  /\ 2 * d <= extent /\ 2 * d >= -extent

\* C23: for two particles in the world the displacement of the pairwise pass
\* is the shortest one on the torus in each coordinate, and so is the
\* displacement between a particle in the world and a ripple origin in the
\* world.
C23_ShortestDisplacement ==
  /\ \A i, j \in Idx(numParticles) :
        (InWorld(x[i], y[i]) /\ InWorld(x[j], y[j])) =>
           /\ ShortestOnTorus(PairDx(Engine, i, j), x[j] - x[i], width)
           /\ ShortestOnTorus(PairDy(Engine, i, j), y[j] - y[i], height)
  /\ \A i \in Idx(numParticles) : \A r \in 1 .. Len(ripples) :
        (InWorld(x[i], y[i]) /\ InWorld(ripples[r].x, ripples[r].y)) =>
           /\ ShortestOnTorus(RippleDx(ripples[r], x[i], width),
                              x[i] - ripples[r].x, width)
           /\ ShortestOnTorus(RippleDy(ripples[r], y[i], height),
                              y[i] - ripples[r].y, height)

\* after a tick, two particles in the world lie more than half the width
\* apart in x, and one of them lies more than half the width from the origin
\* of a ripple
C23_Witness ==
  /\ ticks >= 1
  /\ \E i, j \in Idx(numParticles) : \E r \in 1 .. Len(ripples) :
        /\ InWorld(x[i], y[i]) /\ InWorld(x[j], y[j])
        /\ InWorld(ripples[r].x, ripples[r].y)
        /\ 2 * (x[j] - x[i]) > width
        /\ PairDx(Engine, i, j) = x[j] - x[i] - width
        /\ 2 * (x[j] - ripples[r].x) > width
        /\ RippleDx(ripples[r], x[j], width) = x[j] - ripples[r].x - width

\* C24: an update() leaves in the list the ripples that stay alive, in the
\* order they had, each of them one tick older and 0.95 times as strong, and
\* none of them twice or unadvanced, whatever ripples it removes next to
\* them; every ripple it leaves has a strength of at least 0.05 and an age
\* from 1 to 300.
C24_AdvancedOnce ==
  [][UpdateStep =>
       LET kept == SelectSeq(ripples, StaysAlive)
       IN /\ Len(ripples') = Len(kept)
          /\ \A k \in 1 .. Len(kept) :
                /\ ripples'[k].x = kept[k].x /\ ripples'[k].y = kept[k].y
                /\ ripples'[k].t0 = kept[k].t0
                /\ ripples'[k].age = kept[k].age + 1
                /\ ripples'[k].strength = MulDiv(kept[k].strength, 95, 100)
                /\ ripples'[k].strength >= (5 * SONE) \div 100
                /\ 1 <= ripples'[k].age /\ ripples'[k].age <= 300]_vars

\* after some ticks, the older of two ripples is on its last tick and the
\* newer one, behind it in the list, will stay
C24_Witness ==
  /\ Len(ripples) = 2
  /\ ripples[1].age >= 2 /\ ripples[2].age >= 1
  /\ ~StaysAlive(ripples[1])
  /\ StaysAlive(ripples[2])

\* a step of setConfig(), of initParticles() or of resize(): the
\* configuration, the size of the world or the store changes and no tick is
\* counted
OutsideTickStep ==
  /\ ~UpdateStep
  /\ \/ config' # config
     \/ width' # width \/ height' # height
     \/ particleVars' # particleVars

\* C25: setConfig(), with the counts changed or not and whatever the new
\* rippleStrength is, initParticles() and resize() leave the ripple list as
\* it was; a step that is not an update() leaves every ripple of the list in
\* its place with its origin, age and strength, and takes none away.
C25_RipplesIndependent ==
  [][/\ OutsideTickStep => ripples' = ripples
     /\ ~UpdateStep =>
           /\ Len(ripples') >= Len(ripples)
           /\ \A r \in 1 .. Len(ripples) : ripples'[r] = ripples[r]]_vars

\* a ripple is in the list under a configuration that cannot have made it:
\* its rippleStrength is negative, and its counts differ from those of the
\* configuration the engine was built with, so that the store was rebuilt
C25_Witness ==
  /\ config = CountsConfig
  /\ numParticles = 2
  /\ Len(ripples) >= 1
  /\ ripples[1].strength > 0

====
